---------------------------- MODULE Spec2Model ----------------------------
(***************************************************************************)
(* Model of the esp32-laser-parcour firmware.                              *)
(*                                                                         *)
(*  - the coordinator's game logic (components/game_logic/game_logic.c):   *)
(*    game state, player record, statistics, configuration, penalty        *)
(*    tracking and the laser-unit registry, driven by the callers in       *)
(*    main/module_control.c;                                               *)
(*  - the laser node (main/module_laser.c with                             *)
(*    components/laser_control/laser_control.c): emitter, pairing flag,    *)
(*    heartbeat safety timer.                                              *)
(*                                                                         *)
(* Times on the coordinator are uint32 milliseconds                        *)
(* ((uint32_t)(esp_timer_get_time() / 1000)); times on the laser node are  *)
(* int64 microseconds.  All values stay far below 2^31 inside the bounds   *)
(* of the model, so no wrap-around arises and plain integers are used.     *)
(***************************************************************************)
EXTENDS Integers, Sequences, FiniteSets, TLC

(***************************************************************************)
(* Bounds of the model                                                     *)
(***************************************************************************)
\* the coordinator's clock runs up to MaxNowSec seconds
MaxNowSec == 4
\* at most MaxGames increments of statistics.total_games
MaxGames == 2
\* at most MaxBreaks beam breaks are counted in one game
MaxBreaks == 2
\* the laser node's clock runs up to MaxLaserSec seconds; the ten-minute
\* one-shot timer of laser_control.c lies beyond this horizon
MaxLaserSec == 61
\* the laser node's clock value (us) when module_laser_init has run
LaserBootUs == 1000000
\* the registry model's clock runs up to MaxRegSec seconds
MaxRegSec == 17
MaxSweepSec == 76

\* the clock of the game model advances by the penalty display time (ms)
ClockSteps == {3000}
\* the clock of the registry model advances by one step past the 15 s
\* online window
RegSteps == {16000}
SweepSteps == {15000, 45000}
\* the coordinator's clock value (ms) when game_logic_init has run
BootMs == 1000
\* the clock of the laser node advances by half the heartbeat timeout (us)
LaserSteps == {15000000}

(***************************************************************************)
(* Program constants                                                       *)
(***************************************************************************)
PENALTY_DISPLAY_TIME_MS == 3000
MAX_LASER_UNITS == 10
ONLINE_TIMEOUT_MS == 15000
REMOVAL_TIMEOUT_MS == 60000
\* module_laser.c
HEARTBEAT_TIMEOUT_US == 30000000
\* the channel of the build configuration
CONFIG_ESPNOW_CHANNEL == 1
MAX_ATTEMPTS_PER_CHANNEL == 1
MAX_WIFI_CHANNEL == 13
\* laser_control.c: the one-shot cut-off armed by laser_turn_on (us)
LASER_SAFETY_TIMEOUT_US == 600000000

GameStates == {"IDLE", "READY", "COUNTDOWN", "RUNNING", "PENALTY",
               "PAUSED", "COMPLETE", "ERROR"}
Completions == {"NONE", "SOLVED", "ABORTED_TIME", "ABORTED_MANUAL"}
GameModes == {"SINGLE_SPEEDRUN", "MULTIPLAYER", "TRAINING", "CUSTOM"}

\* inputs the model draws from
\* every caller of game_start passes GAME_MODE_SINGLE_SPEEDRUN
\* (module_control.c:305, 429); training mode comes from game_set_config
StartModes == {"SINGLE_SPEEDRUN"}
\* the configurations handed to game_set_config
ConfigInputs == {[mode |-> "SINGLE_SPEEDRUN", max_time |-> 2, penalty_time |-> 2],
                 [mode |-> "TRAINING", max_time |-> 0, penalty_time |-> 15]}
\* the sender (address, module id) of the frames the game model receives
GameSenders == {<<"macA", 1>>}
\* the frames the game model receives: those that reach the game logic
GameMsgTypes == {"BEAM_BROKEN", "FINISH_PRESSED", "PAIRING_REQUEST"}
GameRoleBytes == {1}
ModuleIds == {1, 2}
Macs == {"macA", "macB"}
\* role byte of a PairingRequest: 0 (absent), 1 laser, 2 finish button
RoleBytes == {0, 1, 2}
\* the frames the registry model receives, as <<type, data[0]>>; only a
\* PairingRequest carries a role byte
CoordFrames == {<<"BEAM_BROKEN", 0>>, <<"FINISH_PRESSED", 0>>,
                <<"HEARTBEAT", 0>>, <<"STATUS_UPDATE", 0>>}
               \cup {<<"PAIRING_REQUEST", b>> : b \in RoleBytes}

VARIABLES
    now,                 \* coordinator clock, ms
    current_state,       \* game_logic.c:23
    current_player,      \* game_logic.c:24
    statistics,          \* game_logic.c:25
    configuration,       \* game_logic.c:26
    penalty_start_time,  \* game_logic.c:35
    total_penalty_time,  \* game_logic.c:36
    laser_units,         \* game_logic.c:511 (laser_unit_count = Len)
    esp_peers,           \* the coordinator's ESP-NOW unicast peer table
    reader_pc,           \* position of the status reader: "idle", or "stop"
                         \* between xSemaphoreGive and game_stop (416-419)
    op,                  \* what the last operation returned: ret, and out,
                         \* the player_data copy of game_get_player_data
    tx,                  \* the datagrams sent by the last operation
    completed,           \* history: number of transitions into COMPLETE
    \* ---- laser node ----
    lnow,                \* laser node clock, microseconds
    is_paired,           \* module_laser.c:28
    is_game_mode,        \* module_laser.c:29
    main_unit_mac,       \* module_laser.c:34
    last_main_unit_heartbeat, \* module_laser.c:37
    laser_status,        \* laser_control.c:25 (current_status)
    laser_duty,          \* the PWM duty written by laser_control.c
    cutoff_deadline,     \* laser_control.c:27 one-shot timer, 0 = inactive
    led_status,          \* CONFIG_LASER_STATUS_LED_PIN level
    led_red,             \* CONFIG_SENSOR_LED_RED_PIN level
    led_green,           \* CONFIG_SENSOR_LED_GREEN_PIN level
    led_blink_state,     \* module_laser.c:45
    monitoring_active,   \* sensor_manager.c (sensor_start/stop_monitoring)
    current_scan_channel,     \* module_laser.c:41
    scan_attempts_on_channel, \* module_laser.c:42
    radio_channel,       \* the channel the laser node's radio is tuned to
    pairing_timer_on,    \* module_laser.c:30, TRUE while the timer is active
    heartbeat_timer_on,  \* module_laser.c:31, TRUE while the timer is active
    blink_timer_on,      \* module_laser.c:32, TRUE while the timer is active
    lpeers,              \* the laser node's ESP-NOW unicast peer table
    ltx,                 \* the datagrams sent by the node's last handler
    hb_seen_at,          \* history: time the last Heartbeat of the
                         \* coordinator arrived, -1 if none
    on_since,            \* history: time of the last laser_turn_on, -1
    \* ---- radio receive path ----
    rx_verdict,          \* what espnow_recv_cb did with the last frame on
                         \* each node: "none", "delivered" or "dropped"
    \* ---- channel change on the coordinator ----
    cc,                  \* the task running wifi_connect_sta: its position
                         \* (pc), the argument of notify_channel_change,
                         \* the loop index i, the broadcasts issued (sent),
                         \* the time spent in vTaskDelay, the value
                         \* returned, and the channel of the radio
    \* ---- a registry read in progress ----
    sweep_pc,            \* -1, or active_count of a game_get_laser_units
                         \* that has left its loop (line 637) and has not
                         \* yet written laser_unit_count (line 643)
    \* ---- a game operation statement by statement ----
    call,                \* the function a task is in (fn), the statement
                         \* it is at (pc), the result of its locked
                         \* section (ret), and whether it holds game_mutex
    \* ---- the finish-button node (module_finish.c) ----
    fin,                 \* its statics is_paired, main_unit_mac,
                         \* channel_scanning, scanning_channel_index,
                         \* status_led_state, whether the heartbeat timer
                         \* runs, the channel of its radio, its unicast
                         \* peer table, and the sends of its last step
    \* ---- the medium between the laser node and the coordinator ----
    request_channel,     \* the channel the laser node's radio was tuned to
                         \* when it sent its last PairingRequest
    \* ---- the coordinator's start-up (module_control_init) ----
    boot                 \* the statement module_control_init is at (pc), the
                         \* callbacks registered so far, whether game_mutex
                         \* has been created, and the game operation that
                         \* was called while it was still NULL (early_call)

gameVars == <<now, current_state, current_player, statistics, configuration,
              penalty_start_time, total_penalty_time, laser_units, esp_peers,
              reader_pc, op, tx, completed>>
laserVars == <<lnow, is_paired, is_game_mode, main_unit_mac,
               last_main_unit_heartbeat, laser_status, laser_duty,
               cutoff_deadline, led_status, led_red, led_green,
               led_blink_state, monitoring_active, current_scan_channel,
               scan_attempts_on_channel, radio_channel, pairing_timer_on,
               heartbeat_timer_on, blink_timer_on, lpeers, ltx,
               hb_seen_at, on_since>>
extVars == <<sweep_pc, call, fin, request_channel, boot>>
linkVars == <<rx_verdict, cc, extVars>>
vars == <<gameVars, laserVars, linkVars>>

(***************************************************************************)
(* Game logic: the state behind game_mutex, as one record                  *)
(***************************************************************************)
G == [state |-> current_state, player |-> current_player,
      stats |-> statistics, config |-> configuration,
      penalty_start |-> penalty_start_time,
      total_penalty |-> total_penalty_time]

SetG(g) ==
    /\ current_state' = g.state
    /\ current_player' = g.player
    /\ statistics' = g.stats
    /\ configuration' = g.config
    /\ penalty_start_time' = g.penalty_start
    /\ total_penalty_time' = g.total_penalty

\* memset(&current_player, 0, ...)
ZeroPlayer == [player_id |-> 0, start_time |-> 0, end_time |-> 0,
               elapsed_time |-> 0, beam_breaks |-> 0, completion |-> "NONE",
               is_active |-> FALSE]
ZeroStats == [total_games |-> 0, best_time |-> 0, worst_time |-> 0,
              avg_time |-> 0, total_beam_breaks |-> 0, total_playtime |-> 0]
DefaultConfig == [mode |-> "SINGLE_SPEEDRUN", max_time |-> 0,
                  penalty_time |-> 15]

\* game_has_laser_units without the role test of line 585
game_has_laser_units_any_role(units, t) ==
    \E i \in 1..Len(units) : t - units[i].last_seen <= ONLINE_TIMEOUT_MS

\* game_has_laser_units (lines 567-592)
game_has_laser_units(units, t) ==
    \E i \in 1..Len(units) :
        /\ t - units[i].last_seen <= ONLINE_TIMEOUT_MS
        /\ units[i].role = 1

\* the statistics update shared by game_finish and game_stop
UpdateStats(s, p) ==
    LET games == s.total_games + 1
        playtime == s.total_playtime + p.elapsed_time
        best == IF s.best_time = 0 \/ p.elapsed_time < s.best_time
                THEN p.elapsed_time ELSE s.best_time
        worst == IF p.elapsed_time > s.worst_time
                 THEN p.elapsed_time ELSE s.worst_time
    IN [total_games |-> games,
        best_time |-> best,
        worst_time |-> worst,
        avg_time |-> playtime \div games,
        total_beam_breaks |-> s.total_beam_breaks + p.beam_breaks,
        total_playtime |-> playtime]


\* game_start, the section under game_mutex (lines 71-114)
\* game_start without the memset of the player record (line 90)
game_start_keeps_player(g, units, mode, t) ==
    IF g.state = "RUNNING" \/ g.state = "COUNTDOWN"
    THEN [g |-> g, ret |-> "ESP_FAIL"]
    ELSE IF ~game_has_laser_units(units, t)
    THEN [g |-> g, ret |-> "ESP_ERR_INVALID_STATE"]
    ELSE [g |-> [g EXCEPT
                   !.player = [@ EXCEPT !.player_id = 1,
                                        !.start_time = t,
                                        !.is_active = TRUE],
                   !.penalty_start = 0,
                   !.total_penalty = 0,
                   !.config.mode = mode,
                   !.state = "RUNNING"],
          ret |-> "ESP_OK"]

game_start_locked(g, units, mode, t) ==
    IF g.state = "RUNNING" \/ g.state = "COUNTDOWN"
    THEN [g |-> g, ret |-> "ESP_FAIL"]
    ELSE IF ~game_has_laser_units(units, t)
    THEN [g |-> g, ret |-> "ESP_ERR_INVALID_STATE"]
    ELSE [g |-> [g EXCEPT
                   !.player = [ZeroPlayer EXCEPT !.player_id = 1,
                                                 !.start_time = t,
                                                 !.is_active = TRUE,
                                                 !.completion = "NONE"],
                   !.penalty_start = 0,
                   !.total_penalty = 0,
                   !.config.mode = mode,
                   !.state = "RUNNING"],
          ret |-> "ESP_OK"]

\* game_finish with PAUSED let through the state test of line 147
game_finish_from_paused(g, t) ==
    IF g.state # "RUNNING" /\ g.state # "PENALTY" /\ g.state # "PAUSED"
    THEN [g |-> g, ret |-> "ESP_FAIL"]
    ELSE LET p == [g.player EXCEPT
                     !.end_time = t,
                     !.elapsed_time = (t - g.player.start_time) + g.total_penalty,
                     !.completion = "SOLVED",
                     !.is_active = FALSE]
         IN [g |-> [g EXCEPT !.player = p,
                             !.stats = UpdateStats(g.stats, p),
                             !.state = "COMPLETE",
                             !.penalty_start = 0],
             ret |-> "ESP_OK"]

\* game_finish, the section under game_mutex (lines 142-186)
game_finish_locked(g, t) ==
    IF g.state # "RUNNING" /\ g.state # "PENALTY"
    THEN [g |-> g, ret |-> "ESP_FAIL"]
    ELSE LET p == [g.player EXCEPT
                     !.end_time = t,
                     !.elapsed_time = (t - g.player.start_time) + g.total_penalty,
                     !.completion = "SOLVED",
                     !.is_active = FALSE]
         IN [g |-> [g EXCEPT !.player = p,
                             !.stats = UpdateStats(g.stats, p),
                             !.state = "COMPLETE",
                             !.penalty_start = 0],
             ret |-> "ESP_OK"]

\* game_stop without the completion assignment of lines 232-234
game_stop_keeps_completion(g, t) ==
    IF g.state = "IDLE"
    THEN [g |-> g, ret |-> "ESP_FAIL"]
    ELSE LET p == [g.player EXCEPT
                     !.end_time = t,
                     !.elapsed_time = (t - g.player.start_time) + g.total_penalty,
                     !.is_active = FALSE]
         IN [g |-> [g EXCEPT !.player = p,
                             !.stats = UpdateStats(g.stats, p),
                             !.state = "COMPLETE"],
             ret |-> "ESP_OK"]

\* game_stop, the section under game_mutex (lines 214-257)
game_stop_locked(g, t) ==
    IF g.state = "IDLE"
    THEN [g |-> g, ret |-> "ESP_FAIL"]
    ELSE LET p == [g.player EXCEPT
                     !.end_time = t,
                     !.elapsed_time = (t - g.player.start_time) + g.total_penalty,
                     !.completion = IF g.player.completion = "NONE"
                                    THEN "ABORTED_MANUAL"
                                    ELSE g.player.completion,
                     !.is_active = FALSE]
         IN [g |-> [g EXCEPT !.player = p,
                             !.stats = UpdateStats(g.stats, p),
                             !.state = "COMPLETE"],
             ret |-> "ESP_OK"]

\* game_pause (lines 286-302)
game_pause_locked(g) ==
    IF g.state # "RUNNING"
    THEN [g |-> g, ret |-> "ESP_FAIL"]
    ELSE [g |-> [g EXCEPT !.state = "PAUSED"], ret |-> "ESP_OK"]

\* game_resume (lines 307-323)
game_resume_locked(g) ==
    IF g.state # "PAUSED"
    THEN [g |-> g, ret |-> "ESP_FAIL"]
    ELSE [g |-> [g EXCEPT !.state = "RUNNING"], ret |-> "ESP_OK"]

\* game_beam_broken with PENALTY let through the state test of line 334
game_beam_broken_in_penalty(g, t) ==
    IF g.state # "RUNNING" /\ g.state # "PENALTY"
    THEN [g |-> g, ret |-> "ESP_FAIL"]
    ELSE LET g1 == [g EXCEPT !.player.beam_breaks = (@ + 1) % 65536]
         IN IF g.config.mode # "TRAINING"
            THEN [g |-> [g1 EXCEPT
                           !.state = "PENALTY",
                           !.penalty_start = t,
                           !.total_penalty = @ + g.config.penalty_time * 1000],
                  ret |-> "ESP_OK"]
            ELSE [g |-> g1, ret |-> "ESP_OK"]

\* game_beam_broken (lines 328-362); beam_breaks is a uint16_t
\* game_beam_broken without the mode test of line 344
game_beam_broken_always_penalty(g, t) ==
    IF g.state # "RUNNING"
    THEN [g |-> g, ret |-> "ESP_FAIL"]
    ELSE [g |-> [g EXCEPT
                   !.player.beam_breaks = (@ + 1) % 65536,
                   !.state = "PENALTY",
                   !.penalty_start = t,
                   !.total_penalty = @ + g.config.penalty_time * 1000],
          ret |-> "ESP_OK"]

game_beam_broken_locked(g, t) ==
    IF g.state # "RUNNING"
    THEN [g |-> g, ret |-> "ESP_FAIL"]
    ELSE LET g1 == [g EXCEPT !.player.beam_breaks = (@ + 1) % 65536]
         IN IF g.config.mode # "TRAINING"
            THEN [g |-> [g1 EXCEPT
                           !.state = "PENALTY",
                           !.penalty_start = t,
                           !.total_penalty = @ + g.config.penalty_time * 1000],
                  ret |-> "ESP_OK"]
            ELSE [g |-> g1, ret |-> "ESP_OK"]

\* game_get_player_data: the penalty-display expiry (lines 385-396)
penalty_expiry(g, t) ==
    IF /\ g.state = "PENALTY"
       /\ g.penalty_start > 0
       /\ t - g.penalty_start >= PENALTY_DISPLAY_TIME_MS
    THEN [g EXCEPT !.penalty_start = 0, !.state = "RUNNING"]
    ELSE g

\* game_get_player_data: the elapsed time of a running game (lines 402-405)
running_elapsed(g, t) == (t - g.player.start_time) + g.total_penalty

\* game_get_player_data: the max-time check (line 408)
time_limit_reached(g, elapsed) ==
    g.config.max_time > 0 /\ elapsed >= g.config.max_time * 1000

\* game_get_player_data up to the release of game_mutex (lines 381-426):
\* out is the copy handed to the caller, auto_stop tells that game_stop
\* is called next, after the mutex has been given back
game_get_player_data_locked(g, t) ==
    LET g1 == penalty_expiry(g, t)
        copy == g1.player
    IN IF g1.state = "RUNNING" \/ g1.state = "PENALTY"
       THEN LET elapsed == running_elapsed(g1, t)
                out == [copy EXCEPT !.elapsed_time = elapsed]
            IN IF time_limit_reached(g1, elapsed)
               THEN [g |-> [g1 EXCEPT !.player.completion = "ABORTED_TIME"],
                     out |-> out, auto_stop |-> TRUE]
               ELSE [g |-> g1, out |-> out, auto_stop |-> FALSE]
       ELSE [g |-> g1, out |-> copy, auto_stop |-> FALSE]

(***************************************************************************)
(* Laser-unit registry and the ESP-NOW peer table                          *)
(***************************************************************************)
NewUnit(module_id, mac, role, t) ==
    [module_id |-> module_id, mac_addr |-> mac, last_seen |-> t,
     is_online |-> TRUE, laser_on |-> FALSE,
     role |-> IF role = 0 THEN 1 ELSE role]

\* update_laser_unit without the search for an existing record
update_laser_unit_appends(units, module_id, mac, role, t) ==
    IF Len(units) < MAX_LASER_UNITS
    THEN Append(units, NewUnit(module_id, mac, role, t))
    ELSE units

\* update_laser_unit (lines 518-562): the first record with this module_id
\* is refreshed, otherwise a record is appended while there is room
update_laser_unit(units, module_id, mac, role, t) ==
    IF \E i \in 1..Len(units) : units[i].module_id = module_id
    THEN LET i == CHOOSE k \in 1..Len(units) :
                     /\ units[k].module_id = module_id
                     /\ \A j \in 1..(k - 1) : units[j].module_id # module_id
         IN [units EXCEPT ![i] = [@ EXCEPT
                 !.mac_addr = mac,
                 !.last_seen = t,
                 !.is_online = TRUE,
                 !.role = IF role # 0 THEN role ELSE @]]
    ELSE IF Len(units) < MAX_LASER_UNITS
    THEN Append(units, NewUnit(module_id, mac, role, t))
    ELSE units

\* the sweep without the removal of lines 612-623
sweep_units_keeps_stale(units, t) ==
    [i \in 1..Len(units) |->
       [units[i] EXCEPT !.is_online = ~(t - units[i].last_seen > ONLINE_TIMEOUT_MS)]]

\* game_get_laser_units (lines 597-652): the sweep
sweep_units(units, t) ==
    LET keep(u) == ~(t - u.last_seen > REMOVAL_TIMEOUT_MS)
        kept == SelectSeq(units, keep)
    IN [i \in 1..Len(kept) |->
          [kept[i] EXCEPT !.is_online = ~(t - kept[i].last_seen > ONLINE_TIMEOUT_MS)]]

\* the addresses handed to espnow_remove_peer by the sweep (line 619)
swept_macs(units, t) ==
    {units[i].mac_addr : i \in {k \in 1..Len(units) :
                                   t - units[k].last_seen > REMOVAL_TIMEOUT_MS}}

\* the unicast loop of game_start / game_finish / game_stop over the units
\* returned by game_get_laser_units; ok tells whether esp_now_send finds
\* the destination in the peer table
send_to_units(units, peers, type) ==
    [i \in 1..Len(units) |->
        [dest |-> units[i].mac_addr, type |-> type,
         ok |-> units[i].mac_addr \in peers]]

(***************************************************************************)
(* The coordinator's operations                                            *)
(***************************************************************************)
Active == {"RUNNING", "PENALTY"}
Op(ret) == [ret |-> ret, out |-> ZeroPlayer]

\* history: a transition into COMPLETE is counted
History(g) ==
    completed' = IF current_state # "COMPLETE" /\ g.state = "COMPLETE"
                 THEN completed + 1 ELSE completed

\* the part of game_start, game_finish and game_stop after the mutex is
\* given back: game_get_laser_units, then one unicast per unit
SendPhase(type) ==
    /\ laser_units' = sweep_units(laser_units, now)
    /\ esp_peers' = esp_peers \ swept_macs(laser_units, now)
    /\ tx' = send_to_units(laser_units', esp_peers', type)

NoSend ==
    /\ tx' = <<>>
    /\ UNCHANGED <<laser_units, esp_peers>>

\* the passage of time between two operations
Tick(d, max_sec) ==
    /\ now + d <= max_sec * 1000
    /\ now' = now + d
    /\ op' = Op("NA")
    /\ tx' = <<>>
    /\ UNCHANGED <<current_state, current_player, statistics, configuration,
                   penalty_start_time, total_penalty_time, laser_units,
                   esp_peers, reader_pc, completed>>
    /\ UNCHANGED <<laserVars, linkVars>>

Advance(d) == Tick(d, MaxNowSec)

LongWait(d) == Tick(d, MaxRegSec)

\* game_start(mode, name)
GameStart(mode) ==
    /\ statistics.total_games < MaxGames
    /\ LET r == game_start_locked(G, laser_units, mode, now)
       IN /\ SetG(r.g)
          /\ op' = Op(r.ret)
          /\ History(r.g)
          /\ IF r.ret = "ESP_OK" THEN SendPhase("GAME_START") ELSE NoSend
    /\ UNCHANGED <<now, reader_pc>>
    /\ UNCHANGED <<laserVars, linkVars>>

\* game_finish()
GameFinish ==
    /\ LET r == game_finish_locked(G, now)
       IN /\ r.g.stats.total_games <= MaxGames
          /\ SetG(r.g)
          /\ op' = Op(r.ret)
          /\ History(r.g)
          /\ IF r.ret = "ESP_OK" THEN SendPhase("GAME_STOP") ELSE NoSend
    /\ UNCHANGED <<now, reader_pc>>
    /\ UNCHANGED <<laserVars, linkVars>>

\* game_stop()
GameStop ==
    /\ LET r == game_stop_locked(G, now)
       IN /\ r.g.stats.total_games <= MaxGames
          /\ SetG(r.g)
          /\ op' = Op(r.ret)
          /\ History(r.g)
          /\ IF r.ret = "ESP_OK" THEN SendPhase("GAME_STOP") ELSE NoSend
    /\ UNCHANGED <<now, reader_pc>>
    /\ UNCHANGED <<laserVars, linkVars>>

\* game_pause()
GamePause ==
    /\ LET r == game_pause_locked(G)
       IN /\ SetG(r.g)
          /\ op' = Op(r.ret)
          /\ History(r.g)
    /\ NoSend
    /\ UNCHANGED <<now, reader_pc>>
    /\ UNCHANGED <<laserVars, linkVars>>

\* game_resume()
GameResume ==
    /\ LET r == game_resume_locked(G)
       IN /\ SetG(r.g)
          /\ op' = Op(r.ret)
          /\ History(r.g)
    /\ NoSend
    /\ UNCHANGED <<now, reader_pc>>
    /\ UNCHANGED <<laserVars, linkVars>>

\* game_get_state(): returns current_state, takes no lock (lines 367-370)
GameGetState ==
    /\ op' = Op(current_state)
    /\ NoSend
    /\ UNCHANGED <<now, current_state, current_player, statistics,
                   configuration, penalty_start_time, total_penalty_time,
                   reader_pc, completed>>
    /\ UNCHANGED <<laserVars, linkVars>>

\* game_get_player_data() up to the point where game_mutex is given back
GameGetPlayerData ==
    /\ reader_pc = "idle"
    /\ LET r == game_get_player_data_locked(G, now)
       IN /\ SetG(r.g)
          /\ op' = [ret |-> "ESP_OK", out |-> r.out]
          /\ History(r.g)
          /\ reader_pc' = IF r.auto_stop THEN "stop" ELSE "idle"
    /\ NoSend
    /\ UNCHANGED now
    /\ UNCHANGED <<laserVars, linkVars>>

\* game_get_player_data(): the call of game_stop() at line 419, made
\* after the mutex was given back at line 416
ReaderAutoStop ==
    /\ reader_pc = "stop"
    /\ LET r == game_stop_locked(G, now)
       IN /\ r.g.stats.total_games <= MaxGames
          /\ SetG(r.g)
          /\ op' = Op(r.ret)
          /\ History(r.g)
          /\ IF r.ret = "ESP_OK" THEN SendPhase("GAME_STOP") ELSE NoSend
    /\ reader_pc' = "idle"
    /\ UNCHANGED now
    /\ UNCHANGED <<laserVars, linkVars>>

\* game_get_laser_units, lines 608-637: the array after the loop, with
\* laser_unit_count not yet written: the kept records compacted to the
\* front, behind them what the loop left in place
sweep_loop_array(units, t) ==
    LET kept == sweep_units(units, t)
    IN [i \in 1..Len(units) |->
          IF i <= Len(kept) THEN kept[i]
          ELSE IF t - units[i].last_seen > REMOVAL_TIMEOUT_MS THEN units[i]
          ELSE [units[i] EXCEPT
                  !.is_online = ~(t - units[i].last_seen > ONLINE_TIMEOUT_MS)]]

\* game_get_laser_units in a task that can be preempted: the loop of
\* lines 608-637; no mutex is taken
SweepLoop ==
    /\ sweep_pc = -1
    /\ call = [fn |-> "none", pc |-> "idle", ret |-> "NA", mutex |-> FALSE]
    /\ fin = [is_paired |-> FALSE, main_unit_mac |-> "none",
              channel_scanning |-> TRUE, scanning_channel_index |-> 0,
              status_led_state |-> FALSE, heartbeat_timer_on |-> FALSE,
              radio_channel |-> CONFIG_ESPNOW_CHANNEL, peers |-> {},
              tx |-> <<[dest |-> "broadcast", type |-> "PAIRING_REQUEST",
                        ok |-> TRUE]>>]
    /\ sweep_pc' = Len(sweep_units(laser_units, now))
    /\ laser_units' = sweep_loop_array(laser_units, now)
    /\ esp_peers' = esp_peers \ swept_macs(laser_units, now)
    /\ tx' = <<>>
    /\ op' = Op("NA")
    /\ UNCHANGED <<now, current_state, current_player, statistics,
                   configuration, penalty_start_time, total_penalty_time,
                   reader_pc, completed>>
    /\ UNCHANGED <<laserVars, rx_verdict, cc, call, fin, request_channel, boot>>

\* game_get_laser_units, lines 640-651: laser_unit_count is set to
\* active_count if that is smaller, and the registry is copied out
SweepCommit ==
    /\ sweep_pc # -1
    /\ sweep_pc' = -1
    /\ laser_units' = IF sweep_pc < Len(laser_units)
                      THEN SubSeq(laser_units, 1, sweep_pc)
                      ELSE laser_units
    /\ tx' = <<>>
    /\ op' = [ret |-> "ESP_OK",
              out |-> [unit_count |-> Len(laser_units'),
                       removed |-> Len(laser_units) - Len(laser_units')]]
    /\ UNCHANGED <<now, current_state, current_player, statistics,
                   configuration, penalty_start_time, total_penalty_time,
                   esp_peers, reader_pc, completed>>
    /\ UNCHANGED <<laserVars, rx_verdict, cc, call, fin, request_channel, boot>>

\* the operations that begin with xSemaphoreTake(game_mutex, ...) and
\* return ESP_FAIL when it times out
LockedOps == {"game_start", "game_finish", "game_stop", "game_pause",
              "game_resume", "game_beam_broken", "game_get_player_data"}

\* a call of fn while another task keeps the mutex for longer than the
\* bounded wait
GameLockTimeout(fn) ==
    /\ fn \in LockedOps
    /\ op' = Op("ESP_FAIL")
    /\ NoSend
    /\ UNCHANGED <<now, current_state, current_player, statistics,
                   configuration, penalty_start_time, total_penalty_time,
                   reader_pc, completed>>
    /\ UNCHANGED <<laserVars, linkVars>>

\* game_get_player_data(): the call of game_stop() at line 419 times out
\* on the mutex; its result is not looked at and line 422 returns ESP_OK
ReaderAutoStopLockTimeout ==
    /\ reader_pc = "stop"
    /\ reader_pc' = "idle"
    /\ op' = Op("ESP_OK")
    /\ NoSend
    /\ UNCHANGED <<now, current_state, current_player, statistics,
                   configuration, penalty_start_time, total_penalty_time,
                   completed>>
    /\ UNCHANGED <<laserVars, linkVars>>

\* game_set_config(config): the whole configuration is copied (line 481)
GameSetConfig(config) ==
    /\ configuration' = config
    /\ op' = Op("ESP_OK")
    /\ NoSend
    /\ UNCHANGED <<now, current_state, current_player, statistics,
                   penalty_start_time, total_penalty_time,
                   reader_pc, completed>>
    /\ UNCHANGED <<laserVars, linkVars>>

\* game_get_laser_units() called on its own (display task, web status)
GameGetLaserUnits ==
    /\ laser_units' = sweep_units(laser_units, now)
    /\ esp_peers' = esp_peers \ swept_macs(laser_units, now)
    /\ tx' = <<>>
    /\ op' = [ret |-> "ESP_OK",
              out |-> [unit_count |-> Len(laser_units'),
                       removed |-> Len(laser_units) - Len(laser_units')]]
    /\ UNCHANGED <<now, current_state, current_player, statistics,
                   configuration, penalty_start_time, total_penalty_time,
                   reader_pc, completed>>
    /\ UNCHANGED <<laserVars, linkVars>>

\* espnow_recv_callback_main (module_control.c:470-542) for one valid frame
CoordRecv(mac, module_id, type, data0) ==
    LET units1 == update_laser_unit(laser_units, module_id, mac, 0, now)
    IN
    /\ CASE type = "BEAM_BROKEN" ->
              LET r == game_beam_broken_locked(G, now)
              IN /\ r.g.player.beam_breaks <= MaxBreaks
                 /\ SetG(r.g)
                 /\ op' = Op(r.ret)
                 /\ History(r.g)
                 /\ laser_units' = units1
                 /\ tx' = <<>>
                 /\ UNCHANGED esp_peers
         [] type = "FINISH_PRESSED" ->
              LET r == game_finish_locked(G, now)
              IN /\ r.g.stats.total_games <= MaxGames
                 /\ SetG(r.g)
                 /\ op' = Op(r.ret)
                 /\ History(r.g)
                 /\ IF r.ret = "ESP_OK"
                    THEN /\ laser_units' = sweep_units(units1, now)
                         /\ esp_peers' = esp_peers \ swept_macs(units1, now)
                         /\ tx' = send_to_units(laser_units', esp_peers', "GAME_STOP")
                    ELSE /\ laser_units' = units1
                         /\ tx' = <<>>
                         /\ UNCHANGED esp_peers
         [] type = "HEARTBEAT" ->
              /\ laser_units' = units1
              /\ esp_peers' = esp_peers \cup {mac}
              /\ tx' = <<>>
              /\ op' = Op("NA")
              /\ UNCHANGED <<current_state, current_player, statistics,
                             configuration, penalty_start_time,
                             total_penalty_time, completed>>
         [] type = "PAIRING_REQUEST" ->
              LET peer_role == IF data0 = 2 THEN 2 ELSE 1
              IN /\ laser_units' = update_laser_unit(units1, module_id, mac, peer_role, now)
                 /\ esp_peers' = esp_peers \cup {mac}
                 /\ tx' = <<[dest |-> mac, type |-> "PAIRING_RESPONSE", ok |-> TRUE]>>
                 /\ op' = Op("NA")
                 /\ UNCHANGED <<current_state, current_player, statistics,
                                configuration, penalty_start_time,
                                total_penalty_time, completed>>
         [] OTHER ->
              /\ laser_units' = units1
              /\ tx' = <<>>
              /\ op' = Op("NA")
              /\ UNCHANGED <<current_state, current_player, statistics,
                             configuration, penalty_start_time,
                             total_penalty_time, esp_peers,
                             completed>>
    /\ UNCHANGED <<now, reader_pc>>
    /\ UNCHANGED laserVars
    /\ rx_verdict' = [rx_verdict EXCEPT !.coord = "delivered"]
    /\ UNCHANGED <<cc, extVars>>

(***************************************************************************)
(* The laser node (main/module_laser.c, laser_control/laser_control.c)     *)
(***************************************************************************)
\* the senders a laser node hears: the coordinator and one other node
CoordMac == "coord"
LaserSenders == {CoordMac, "other"}
\* the frames a laser node receives, as <<type, data[0]>>
LaserFrames == {<<"GAME_START", 0>>, <<"GAME_STOP", 0>>, <<"LASER_ON", 100>>,
                <<"LASER_OFF", 0>>, <<"HEARTBEAT", 0>>,
                <<"PAIRING_RESPONSE", 0>>, <<"RESET", 0>>,
                <<"CHANNEL_CHANGE", 6>>, <<"CHANNEL_CHANGE", 14>>}

\* laser_turn_on (laser_control.c:85-106): the one-shot timer is armed
\* unless it is already running
laser_turn_on(intensity) ==
    /\ laser_duty' = ((IF intensity > 100 THEN 100 ELSE intensity) * 255) \div 100
    /\ laser_status' = "LASER_ON"
    /\ cutoff_deadline' = IF cutoff_deadline = 0
                          THEN lnow + LASER_SAFETY_TIMEOUT_US
                          ELSE cutoff_deadline
    /\ on_since' = lnow

\* laser_turn_off (laser_control.c:111-127)
laser_turn_off ==
    /\ laser_duty' = 0
    /\ laser_status' = "LASER_OFF"
    /\ cutoff_deadline' = 0
    /\ UNCHANGED on_since

LaserUntouched == UNCHANGED <<laser_status, laser_duty, cutoff_deadline, on_since>>

\* espnow_change_channel (espnow_manager.c:255-292)
espnow_change_channel(new_channel) ==
    IF new_channel < 1 \/ new_channel > 13
    THEN [channel |-> radio_channel, ret |-> "ESP_ERR_INVALID_ARG"]
    ELSE [channel |-> new_channel, ret |-> "ESP_OK"]

pairVars == <<is_paired, main_unit_mac, lpeers, pairing_timer_on,
              heartbeat_timer_on, blink_timer_on>>
scanVars == <<current_scan_channel, scan_attempts_on_channel, radio_channel>>

\* the heartbeat case without the comparison of the sender
heartbeat_refresh_any_sender(sender, cached_mac, last, t) == t

\* the MSG_HEARTBEAT case (module_laser.c:276-285): the new value of
\* last_main_unit_heartbeat
heartbeat_refresh(sender, cached_mac, last, t) ==
    IF sender = cached_mac THEN t ELSE last

\* espnow_recv_callback_laser (module_laser.c:216-412) for one valid frame
LaserRecv(sender, type, data0) ==
    /\ hb_seen_at' = IF type = "HEARTBEAT" /\ sender = CoordMac
                     THEN lnow ELSE hb_seen_at
    /\ CASE type = "GAME_START" ->
              /\ is_game_mode' = TRUE
              /\ last_main_unit_heartbeat' = lnow
              /\ laser_turn_on(100)
              /\ led_status' = 0
              /\ led_green' = 1
              /\ led_red' = 0
              /\ monitoring_active' = TRUE
              /\ ltx' = <<>>
              /\ UNCHANGED <<pairVars, scanVars, led_blink_state>>
         [] type = "GAME_STOP" ->
              /\ is_game_mode' = FALSE
              /\ monitoring_active' = FALSE
              /\ laser_turn_off
              /\ led_status' = 1
              /\ led_green' = 0
              /\ led_red' = 0
              /\ ltx' = <<>>
              /\ UNCHANGED <<pairVars, scanVars, led_blink_state,
                             last_main_unit_heartbeat>>
         [] type = "LASER_ON" ->
              /\ laser_turn_on(data0)
              /\ led_status' = 0
              /\ led_green' = IF ~is_game_mode THEN 1 ELSE led_green
              /\ led_red' = IF ~is_game_mode THEN 1 ELSE led_red
              /\ ltx' = <<>>
              /\ UNCHANGED <<pairVars, scanVars, led_blink_state, is_game_mode,
                             last_main_unit_heartbeat, monitoring_active>>
         [] type = "LASER_OFF" ->
              /\ laser_turn_off
              /\ led_status' = 1
              /\ led_green' = IF ~is_game_mode THEN 0 ELSE led_green
              /\ led_red' = IF ~is_game_mode THEN 0 ELSE led_red
              /\ ltx' = <<>>
              /\ UNCHANGED <<pairVars, scanVars, led_blink_state, is_game_mode,
                             last_main_unit_heartbeat, monitoring_active>>
         [] type = "HEARTBEAT" ->
              /\ last_main_unit_heartbeat' =
                    heartbeat_refresh(sender, main_unit_mac,
                                      last_main_unit_heartbeat, lnow)
              /\ ltx' = <<>>
              /\ LaserUntouched
              /\ UNCHANGED <<pairVars, scanVars, led_blink_state, is_game_mode,
                             monitoring_active, led_status, led_green, led_red>>
         [] type = "PAIRING_RESPONSE" ->
              /\ main_unit_mac' = sender
              /\ lpeers' = lpeers \cup {sender}
              /\ is_paired' = TRUE
              /\ scan_attempts_on_channel' = 0
              /\ led_blink_state' = 0
              /\ led_status' = 1
              /\ pairing_timer_on' = FALSE
              /\ blink_timer_on' = FALSE
              /\ heartbeat_timer_on' = TRUE
              /\ ltx' = <<>>
              /\ LaserUntouched
              /\ UNCHANGED <<current_scan_channel, radio_channel, is_game_mode,
                             last_main_unit_heartbeat, monitoring_active,
                             led_green, led_red>>
         [] type = "RESET" ->
              /\ lpeers' = IF is_paired THEN lpeers \ {main_unit_mac} ELSE lpeers
              /\ is_game_mode' = FALSE
              /\ last_main_unit_heartbeat' = 0
              /\ monitoring_active' = FALSE
              /\ laser_turn_off
              /\ led_status' = 0
              /\ led_green' = 0
              /\ led_red' = 0
              /\ is_paired' = FALSE
              /\ heartbeat_timer_on' = FALSE
              /\ current_scan_channel' = CONFIG_ESPNOW_CHANNEL
              /\ scan_attempts_on_channel' = 0
              /\ led_blink_state' = 0
              /\ pairing_timer_on' = TRUE
              /\ blink_timer_on' = TRUE
              /\ ltx' = <<>>
              /\ UNCHANGED <<main_unit_mac, radio_channel>>
         [] type = "CHANNEL_CHANGE" ->
              LET r == espnow_change_channel(data0)
              IN /\ radio_channel' = r.channel
                 /\ ltx' = IF r.ret = "ESP_OK"
                           THEN <<[dest |-> "broadcast", type |-> "CHANNEL_ACK"]>>
                           ELSE <<>>
                 /\ LaserUntouched
                 /\ UNCHANGED <<pairVars, current_scan_channel,
                                scan_attempts_on_channel, led_blink_state,
                                is_game_mode, last_main_unit_heartbeat,
                                monitoring_active, led_status, led_green,
                                led_red>>
    /\ UNCHANGED lnow
    /\ UNCHANGED gameVars
    /\ rx_verdict' = [rx_verdict EXCEPT !.laser = "delivered"]
    /\ UNCHANGED <<cc, extVars>>

\* the increment of the scan channel without the wrap of lines 131-134
next_scan_channel_no_wrap(channel) == channel + 1

\* current_scan_channel++ with the wrap after channel 13
\* (module_laser.c:128-134)
next_scan_channel(channel) ==
    IF channel + 1 > MAX_WIFI_CHANNEL THEN 1 ELSE channel + 1

\* pairing_timer_callback (module_laser.c:116-144): the request goes out on
\* the channel the radio is tuned to, then the node moves on
LaserPairingTimer ==
    /\ pairing_timer_on
    /\ IF ~is_paired
       THEN /\ ltx' = <<[dest |-> "broadcast", type |-> "PAIRING_REQUEST"]>>
            /\ request_channel' = radio_channel
            /\ IF scan_attempts_on_channel + 1 >= MAX_ATTEMPTS_PER_CHANNEL
               THEN LET next_channel == next_scan_channel(current_scan_channel)
                    IN /\ scan_attempts_on_channel' = 0
                       /\ current_scan_channel' = next_channel
                       /\ radio_channel' = espnow_change_channel(next_channel).channel
               ELSE /\ scan_attempts_on_channel' = scan_attempts_on_channel + 1
                    /\ UNCHANGED <<current_scan_channel, radio_channel>>
       ELSE /\ ltx' = <<>>
            /\ UNCHANGED <<scanVars, request_channel>>
    /\ LaserUntouched
    /\ UNCHANGED <<lnow, pairVars, is_game_mode, last_main_unit_heartbeat,
                   led_status, led_green, led_red, led_blink_state,
                   monitoring_active, hb_seen_at>>
    /\ UNCHANGED <<gameVars, rx_verdict, cc, sweep_pc, call, fin, boot>>

\* safety_timer_callback (module_laser.c:79-111), started periodically at
\* module_laser.c:482
SafetyTimerTick ==
    /\ IF /\ is_paired
          /\ last_main_unit_heartbeat > 0
          /\ lnow - last_main_unit_heartbeat > HEARTBEAT_TIMEOUT_US
          /\ laser_status = "LASER_ON"
       THEN /\ laser_turn_off
            /\ led_green' = 0
            /\ led_red' = 1
       ELSE /\ LaserUntouched
            /\ UNCHANGED <<led_green, led_red>>
    /\ ltx' = <<>>
    /\ UNCHANGED <<lnow, pairVars, scanVars, is_game_mode,
                   last_main_unit_heartbeat, led_status, led_blink_state,
                   monitoring_active, hb_seen_at>>
    /\ UNCHANGED <<gameVars, linkVars>>

\* safety_timeout_cb (laser_control.c:32-36): the one-shot cut-off fires
LaserCutoff ==
    /\ cutoff_deadline # 0
    /\ lnow >= cutoff_deadline
    /\ laser_turn_off
    /\ ltx' = <<>>
    /\ UNCHANGED <<lnow, pairVars, scanVars, is_game_mode,
                   last_main_unit_heartbeat, led_status, led_green, led_red,
                   led_blink_state, monitoring_active, hb_seen_at>>
    /\ UNCHANGED <<gameVars, linkVars>>

\* the passage of time on the laser node between two handlers
LaserAdvance(d) ==
    /\ lnow + d <= MaxLaserSec * 1000000
    /\ lnow' = lnow + d
    /\ ltx' = <<>>
    /\ LaserUntouched
    /\ UNCHANGED <<pairVars, scanVars, is_game_mode,
                   last_main_unit_heartbeat, led_status, led_green, led_red,
                   led_blink_state, monitoring_active, hb_seen_at>>
    /\ UNCHANGED <<gameVars, linkVars>>

(***************************************************************************)
(* The finish-button node (module_finish.c).                               *)
(***************************************************************************)
scanning_channels == <<1, 6, 11>>
FinishFrames == {<<"PAIRING_RESPONSE", 0>>, <<"HEARTBEAT", 0>>, <<"RESET", 0>>,
                 <<"CHANNEL_CHANGE", 6>>, <<"CHANNEL_CHANGE", 14>>,
                 <<"GAME_START", 0>>}

FinBroadcast(type) == <<[dest |-> "broadcast", type |-> type, ok |-> TRUE]>>

\* espnow_recv_callback_finish (module_finish.c:182-251) for one valid frame
FinishRecv(sender, type, data0) ==
    /\ fin' =
         CASE type = "PAIRING_RESPONSE" ->
                IF ~fin.is_paired
                THEN [fin EXCEPT !.is_paired = TRUE,
                                 !.main_unit_mac = sender,
                                 !.channel_scanning = FALSE,
                                 !.heartbeat_timer_on = TRUE,
                                 !.tx = <<>>]
                ELSE [fin EXCEPT !.tx = <<>>]
           [] type = "RESET" ->
                [fin EXCEPT !.is_paired = FALSE,
                            !.channel_scanning = TRUE,
                            !.scanning_channel_index = 0,
                            !.heartbeat_timer_on = FALSE,
                            !.tx = <<>>]
           [] type = "CHANNEL_CHANGE" ->
                IF data0 < 1 \/ data0 > 13
                THEN [fin EXCEPT !.channel_scanning = FALSE, !.tx = <<>>]
                ELSE [fin EXCEPT !.channel_scanning = FALSE,
                                 !.radio_channel = data0,
                                 !.tx = FinBroadcast("CHANNEL_ACK")]
           [] OTHER -> [fin EXCEPT !.tx = <<>>]
    /\ UNCHANGED <<gameVars, laserVars, rx_verdict, cc, sweep_pc, call, request_channel, boot>>

\* pairing_timer_callback (module_finish.c:94-118); the timer is started
\* at line 298 and never stopped
FinishPairingTimer ==
    /\ fin' =
         IF fin.is_paired THEN [fin EXCEPT !.tx = <<>>]
         ELSE IF fin.channel_scanning
         THEN [fin EXCEPT
                 !.radio_channel = scanning_channels[fin.scanning_channel_index + 1],
                 !.status_led_state = ~@,
                 !.scanning_channel_index = (@ + 1) % Len(scanning_channels),
                 !.tx = FinBroadcast("PAIRING_REQUEST")]
         ELSE [fin EXCEPT !.tx = FinBroadcast("PAIRING_REQUEST")]
    /\ UNCHANGED <<gameVars, laserVars, rx_verdict, cc, sweep_pc, call, request_channel, boot>>

\* heartbeat_timer_callback (module_finish.c:84-89)
FinishHeartbeatTimer ==
    /\ fin.heartbeat_timer_on
    /\ fin' = [fin EXCEPT !.tx = IF fin.is_paired
                                 THEN FinBroadcast("HEARTBEAT") ELSE <<>>]
    /\ UNCHANGED <<gameVars, laserVars, rx_verdict, cc, sweep_pc, call, request_channel, boot>>

\* button_handler_task (module_finish.c:130-176) on a press: the unicast
\* is accepted by esp_now_send only for an address of the peer table
FinishButton ==
    /\ fin' = [fin EXCEPT !.tx =
                 IF fin.is_paired
                 THEN <<[dest |-> fin.main_unit_mac, type |-> "FINISH_PRESSED",
                         ok |-> fin.main_unit_mac \in fin.peers]>>
                 ELSE <<>>]
    /\ UNCHANGED <<gameVars, laserVars, rx_verdict, cc, sweep_pc, call, request_channel, boot>>

(***************************************************************************)
(* game_start, game_finish and game_stop statement by statement: the       *)
(* mutex is taken, the locked section runs, the mutex is given back, and   *)
(* after a success the registry is read and the units are notified.        *)
(***************************************************************************)
SendingOps == {"game_start", "game_finish", "game_stop"}

\* the statements in an order that notifies the units before the mutex is
\* given back
next_statement_send_locked(pc, ret) ==
    CASE pc = "take" -> "section"
      [] pc = "section" -> IF ret = "ESP_OK" THEN "send" ELSE "give"
      [] pc = "send" -> "give"
      [] pc = "give" -> "idle"

\* the statement that follows pc: xSemaphoreTake (lines 71, 142, 214), the
\* locked section, xSemaphoreGive (79, 86, 114; 149, 186; 221, 257), and
\* after a success the loop of sends (116-132, 188-204, 259-275)
next_statement(pc, ret) ==
    CASE pc = "take" -> "section"
      [] pc = "section" -> "give"
      [] pc = "give" -> IF ret = "ESP_OK" THEN "send" ELSE "idle"
      [] pc = "send" -> "idle"

\* a task enters fn; after a status read that found the time limit reached
\* the function entered is game_stop (line 419)
OpCall(fn) ==
    /\ call.pc = "idle"
    /\ reader_pc = "stop" => fn = "game_stop"
    /\ fn = "game_start" => statistics.total_games < MaxGames
    /\ call' = [fn |-> fn, pc |-> "take", ret |-> "NA", mutex |-> FALSE]
    /\ reader_pc' = "idle"
    /\ op' = Op("NA")
    /\ NoSend
    /\ UNCHANGED <<now, current_state, current_player, statistics,
                   configuration, penalty_start_time, total_penalty_time,
                   completed>>
    /\ UNCHANGED <<laserVars, rx_verdict, cc, sweep_pc, fin, request_channel, boot>>

\* the task executes the statement it is at
OpStep ==
    /\ call.pc # "idle"
    /\ CASE call.pc = "take" ->
              /\ call' = [call EXCEPT !.mutex = TRUE,
                                      !.pc = next_statement("take", call.ret)]
              /\ op' = Op("NA")
              /\ NoSend
              /\ UNCHANGED <<current_state, current_player, statistics,
                             configuration, penalty_start_time,
                             total_penalty_time, completed>>
         [] call.pc = "section" ->
              LET r == CASE call.fn = "game_start" ->
                              game_start_locked(G, laser_units, "SINGLE_SPEEDRUN", now)
                         [] call.fn = "game_finish" -> game_finish_locked(G, now)
                         [] call.fn = "game_stop" -> game_stop_locked(G, now)
              IN /\ r.g.stats.total_games <= MaxGames
                 /\ SetG(r.g)
                 /\ History(r.g)
                 /\ op' = Op(r.ret)
                 /\ NoSend
                 /\ call' = [call EXCEPT !.ret = r.ret,
                                         !.pc = next_statement("section", r.ret)]
         [] call.pc = "give" ->
              /\ call' = [call EXCEPT !.mutex = FALSE,
                                      !.pc = next_statement("give", call.ret)]
              /\ op' = Op("NA")
              /\ NoSend
              /\ UNCHANGED <<current_state, current_player, statistics,
                             configuration, penalty_start_time,
                             total_penalty_time, completed>>
         [] call.pc = "send" ->
              /\ call' = [call EXCEPT !.pc = next_statement("send", call.ret)]
              /\ op' = Op(call.ret)
              /\ SendPhase(IF call.fn = "game_start" THEN "GAME_START"
                           ELSE "GAME_STOP")
              /\ UNCHANGED <<current_state, current_player, statistics,
                             configuration, penalty_start_time,
                             total_penalty_time, completed>>
    /\ UNCHANGED <<now, reader_pc>>
    /\ UNCHANGED <<laserVars, rx_verdict, cc, sweep_pc, fin, request_channel, boot>>

(***************************************************************************)
(* The receive path of the ESP-NOW manager (espnow_manager.c), which runs  *)
(* on every node in front of the node's receive callback.  A frame is      *)
(* modelled by its length and, of its bytes, the message type, the module  *)
(* id, one timestamp byte, data[0] and the checksum field.                 *)
(***************************************************************************)
\* sizeof(espnow_message_t), a packed struct of 1 + 1 + 4 + 32 + 2 bytes
ESPNOW_MESSAGE_SIZE == 40
\* the generator polynomial of the little-endian CRC-16, reflected
CRC16_POLY == 33800
MsgCode == [t \in {"GAME_START", "GAME_STOP", "BEAM_BROKEN", "STATUS_UPDATE",
                   "HEARTBEAT", "PAIRING_REQUEST", "PAIRING_RESPONSE",
                   "LASER_ON", "LASER_OFF", "RESET", "CHANNEL_CHANGE",
                   "CHANNEL_ACK"} |->
             CASE t = "GAME_START" -> 1 [] t = "GAME_STOP" -> 2
               [] t = "BEAM_BROKEN" -> 3 [] t = "STATUS_UPDATE" -> 4
               [] t = "HEARTBEAT" -> 6 [] t = "PAIRING_REQUEST" -> 7
               [] t = "PAIRING_RESPONSE" -> 8 [] t = "LASER_ON" -> 9
               [] t = "LASER_OFF" -> 10 [] t = "RESET" -> 12
               [] t = "CHANNEL_CHANGE" -> 13 [] t = "CHANNEL_ACK" -> 14]

\* bitwise exclusive or of two naturals
RECURSIVE BitXor(_, _)
BitXor(a, b) ==
    IF a = 0 THEN b
    ELSE IF b = 0 THEN a
    ELSE (((a % 2) + (b % 2)) % 2) + 2 * BitXor(a \div 2, b \div 2)

\* k shift steps of the CRC register
RECURSIVE crc16_shift(_, _)
crc16_shift(crc, k) ==
    IF k = 0 THEN crc
    ELSE crc16_shift(IF crc % 2 = 1
                     THEN BitXor(crc \div 2, CRC16_POLY)
                     ELSE crc \div 2,
                     k - 1)

\* the table of the byte-wise CRC: entry i is the register after eight
\* shift steps from i
crc16_le_table == [i \in 0..255 |-> crc16_shift(i, 8)]

RECURSIVE crc16_fold(_, _)
crc16_fold(crc, bytes) ==
    IF bytes = <<>> THEN crc
    ELSE crc16_fold(BitXor(crc16_le_table[BitXor(crc % 256, Head(bytes))],
                           crc \div 256),
                    Tail(bytes))

\* esp_crc16_le(crc, buf, len): register and result are complemented
esp_crc16_le(crc, bytes) == 65535 - crc16_fold(65535 - crc, bytes)

\* the bytes of a frame in front of its checksum field
FrameBytes(f) == <<MsgCode[f.msg_type], f.module_id, f.timestamp, f.data0>>

\* espnow_send_message (espnow_manager.c:125-159): the frame built for a
\* message
espnow_build_message(msg_type, module_id, data0) ==
    LET msg == [len |-> ESPNOW_MESSAGE_SIZE, msg_type |-> msg_type,
                module_id |-> module_id, timestamp |-> 0, data0 |-> data0,
                checksum |-> 0]
    IN [msg EXCEPT !.checksum = esp_crc16_le(0, FrameBytes(msg))]

\* espnow_recv_cb with the checksum comparison of lines 57-61 left out
espnow_frame_accepted_unverified(f) == f.len = ESPNOW_MESSAGE_SIZE

\* espnow_recv_cb (espnow_manager.c:47-70): the tests a frame passes
\* before the receive callback is called
espnow_frame_accepted(f) ==
    /\ f.len = ESPNOW_MESSAGE_SIZE
    /\ esp_crc16_le(0, FrameBytes(f)) = f.checksum

\* the frames that reach the coordinator's radio: frames as built by a
\* sender, the same truncated by one byte, and the same with the checksum
\* of another frame (a corrupted body)
CoordSentFrames ==
    {espnow_build_message("HEARTBEAT", 1, 0)}
    \cup {espnow_build_message("PAIRING_REQUEST", id, 1) : id \in ModuleIds}
LaserSentFrames ==
    {espnow_build_message(ty, 0, 0) : ty \in {"PAIRING_RESPONSE", "HEARTBEAT"}}
    \cup {espnow_build_message("LASER_ON", 0, 100)}
Damaged(frames) ==
    {[f EXCEPT !.len = ESPNOW_MESSAGE_SIZE - 1] : f \in frames}
    \cup {[f EXCEPT !.checksum = h.checksum] : f \in frames, h \in frames}
CoordRawFrames == CoordSentFrames \cup Damaged(CoordSentFrames)
LaserRawFrames == LaserSentFrames \cup Damaged(LaserSentFrames)

\* the frames of the model that pass the tests of espnow_recv_cb
AcceptedFrames ==
    {f \in CoordRawFrames \cup LaserRawFrames : espnow_frame_accepted(f)}

\* espnow_recv_cb on the coordinator, recv_callback = espnow_recv_callback_main
EspnowRecvCoord(mac, f) ==
    IF f \in AcceptedFrames
    THEN CoordRecv(mac, f.module_id, f.msg_type, f.data0)
    ELSE /\ rx_verdict' = [rx_verdict EXCEPT !.coord = "dropped"]
         /\ UNCHANGED <<gameVars, laserVars, cc, extVars>>

\* espnow_recv_cb on a laser node, recv_callback = espnow_recv_callback_laser
EspnowRecvLaser(sender, f) ==
    IF f \in AcceptedFrames
    THEN LaserRecv(sender, f.msg_type, f.data0)
    ELSE /\ rx_verdict' = [rx_verdict EXCEPT !.laser = "dropped"]
         /\ UNCHANGED <<gameVars, laserVars, cc, extVars>>

(***************************************************************************)
(* Channel change (espnow_manager.c:297-323, main.c:113-127), called by    *)
(* wifi_connect_sta before the station joins an access point on another    *)
(* channel.                                                                *)
(***************************************************************************)
CHANNEL_ACK_TIMEOUT_MS == 2000
BROADCAST_GAP_MS == 100
ChannelInputs == {0, 6, 13, 14}

\* the loop of lines 309-315 left after two rounds
broadcast_loop_done_early(i) == ~(i < 2)

\* for (int i = 0; i < 3; i++), lines 309-315
broadcast_loop_done(i) == ~(i < 3)

\* notify_channel_change(new_channel) up to the argument test of
\* espnow_broadcast_channel_change (lines 299-301)
NotifyChannelChange(new_channel) ==
    /\ cc.pc = "idle"
    /\ new_channel # cc.radio
    /\ cc' = IF new_channel < 1 \/ new_channel > 13
             THEN [cc EXCEPT !.pc = "returned", !.new_channel = new_channel,
                             !.i = 0, !.sent = <<>>, !.waited_ms = 0,
                             !.ret = "ESP_ERR_INVALID_ARG"]
             ELSE [cc EXCEPT !.pc = "loop", !.new_channel = new_channel,
                             !.i = 0, !.sent = <<>>, !.waited_ms = 0,
                             !.ret = "NONE"]
    /\ UNCHANGED <<gameVars, laserVars, rx_verdict, extVars>>

\* one round of the loop: espnow_broadcast_message, whose failure is only
\* logged, and the delay after it
ChannelBroadcast(ok) ==
    /\ cc.pc = "loop"
    /\ cc' = IF broadcast_loop_done(cc.i)
             THEN [cc EXCEPT !.pc = "wait"]
             ELSE [cc EXCEPT
                     !.sent = Append(@, [type |-> "CHANNEL_CHANGE",
                                         data0 |-> cc.new_channel, ok |-> ok]),
                     !.waited_ms = @ + BROADCAST_GAP_MS,
                     !.i = @ + 1]
    /\ UNCHANGED <<gameVars, laserVars, rx_verdict, extVars>>

\* vTaskDelay(timeout_ms) and the return of ESP_OK through
\* notify_channel_change
ChannelWait ==
    /\ cc.pc = "wait"
    /\ cc' = [cc EXCEPT !.pc = "returned",
                        !.waited_ms = @ + CHANNEL_ACK_TIMEOUT_MS,
                        !.ret = "ESP_OK"]
    /\ UNCHANGED <<gameVars, laserVars, rx_verdict, extVars>>

\* wifi_connect_sta after the call of line 362, whose result it does not
\* look at: the station connects and the radio follows the access point
WifiConnectSta ==
    /\ cc.pc = "returned"
    /\ cc' = [cc EXCEPT !.pc = "idle", !.radio = cc.new_channel]
    /\ UNCHANGED <<gameVars, laserVars, rx_verdict, extVars>>

\* a broadcast that went out reaches the laser node
ChannelDeliver ==
    \E k \in 1..Len(cc.sent) :
        /\ cc.sent[k].ok
        /\ LaserRecv(CoordMac, "CHANNEL_CHANGE", cc.sent[k].data0)

(***************************************************************************)
(* Initial state and specifications                                        *)
(***************************************************************************)
\* game_logic_init and the static initialisers of game_logic.c
InitGame ==
    /\ now = BootMs
    /\ current_state = "IDLE"
    /\ current_player = ZeroPlayer
    /\ statistics = ZeroStats
    /\ configuration = DefaultConfig
    /\ penalty_start_time = 0
    /\ total_penalty_time = 0
    /\ laser_units = <<>>
    /\ esp_peers = {}
    /\ reader_pc = "idle"
    /\ op = Op("NA")
    /\ tx = <<>>
    /\ completed = 0

\* module_laser_init and the static initialisers of module_laser.c
InitLaserOn(channel) ==
    /\ lnow = LaserBootUs
    /\ is_paired = FALSE
    /\ is_game_mode = FALSE
    /\ main_unit_mac = "none"
    /\ last_main_unit_heartbeat = 0
    /\ laser_status = "LASER_OFF"
    /\ laser_duty = 0
    /\ cutoff_deadline = 0
    /\ led_status = 0
    /\ led_red = 0
    /\ led_green = 0
    /\ led_blink_state = 0
    /\ monitoring_active = FALSE
    /\ current_scan_channel = channel
    /\ scan_attempts_on_channel = 0
    /\ radio_channel = channel
    /\ pairing_timer_on = TRUE
    /\ heartbeat_timer_on = FALSE
    /\ blink_timer_on = TRUE
    /\ lpeers = {}
    /\ ltx = <<[dest |-> "broadcast", type |-> "PAIRING_REQUEST"]>>
    /\ hb_seen_at = -1
    /\ on_since = -1

\* the laser node in a build with CONFIG_ESPNOW_CHANNEL as configured here
InitLaser == InitLaserOn(CONFIG_ESPNOW_CHANNEL)

InitLinkOn(coord_channel, laser_channel) ==
    /\ rx_verdict = [coord |-> "none", laser |-> "none"]
    /\ cc = [pc |-> "idle", new_channel |-> 0, i |-> 0, sent |-> <<>>,
             waited_ms |-> 0, ret |-> "NONE", radio |-> coord_channel]
    /\ request_channel = laser_channel
    /\ sweep_pc = -1
    /\ call = [fn |-> "none", pc |-> "idle", ret |-> "NA", mutex |-> FALSE]
    /\ fin = [is_paired |-> FALSE, main_unit_mac |-> "none",
              channel_scanning |-> TRUE, scanning_channel_index |-> 0,
              status_led_state |-> FALSE, heartbeat_timer_on |-> FALSE,
              radio_channel |-> CONFIG_ESPNOW_CHANNEL, peers |-> {},
              tx |-> <<[dest |-> "broadcast", type |-> "PAIRING_REQUEST",
                        ok |-> TRUE]>>]

\* module_control_init has returned
BootDone == [pc |-> "done", callbacks |-> {"button", "web", "radio"},
             game_mutex |-> TRUE, early_call |-> "none"]

InitLink ==
    /\ InitLinkOn(CONFIG_ESPNOW_CHANNEL, CONFIG_ESPNOW_CHANNEL)
    /\ boot = BootDone

\* app_main enters module_control_init: game_mutex is NULL (line 40)
InitBoot ==
    /\ InitGame
    /\ InitLaser
    /\ InitLinkOn(CONFIG_ESPNOW_CHANNEL, CONFIG_ESPNOW_CHANNEL)
    /\ boot = [pc |-> "button_handler_init", callbacks |-> {},
               game_mutex |-> FALSE, early_call |-> "none"]

Init == InitGame /\ InitLaser /\ InitLink

NextGame ==
    \/ \E d \in ClockSteps : Advance(d)
    \/ \E mode \in StartModes : GameStart(mode)
    \/ GameFinish
    \/ GameStop
    \/ GamePause
    \/ GameResume
    \/ GameGetState
    \/ GameGetPlayerData
    \/ ReaderAutoStop
    \/ \E config \in ConfigInputs : GameSetConfig(config)
    \/ GameGetLaserUnits
    \/ \E s \in GameSenders, type \in GameMsgTypes, b \in GameRoleBytes :
          CoordRecv(s[1], s[2], type, b)

\* the coordinator's game logic, fed by one laser node
SpecGame == Init /\ [][NextGame]_vars

NextStart ==
    \/ \E d \in RegSteps : LongWait(d)
    \/ \E mode \in StartModes : GameStart(mode)
    \/ GameStop
    \/ GamePause
    \/ GameGetLaserUnits
    \/ \E mac \in Macs, id \in ModuleIds, f \in CoordFrames :
          CoordRecv(mac, id, f[1], f[2])

\* the coordinator's registry and the gating of game_start
SpecStart == Init /\ [][NextStart]_vars

NextFrames ==
    \/ \E d \in RegSteps : LongWait(d)
    \/ \E mac \in Macs, f \in CoordRawFrames : EspnowRecvCoord(mac, f)
    \/ \E sender \in LaserSenders, f \in LaserRawFrames :
          EspnowRecvLaser(sender, f)

\* the radio receive path of the coordinator and of one laser node
SpecFrames == Init /\ [][NextFrames]_vars

NextSweep ==
    \/ \E d \in SweepSteps : Tick(d, MaxSweepSec)
    \/ \E mode \in StartModes : GameStart(mode)
    \/ GameStop
    \/ \E mac \in Macs, id \in ModuleIds : CoordRecv(mac, id, "HEARTBEAT", 0)
    \/ GameGetLaserUnits

\* the registry under silences up to and beyond the removal window
SpecSweep == Init /\ [][NextSweep]_vars

NextChannel ==
    \/ \E c \in ChannelInputs : NotifyChannelChange(c)
    \/ \E ok \in BOOLEAN : ChannelBroadcast(ok)
    \/ ChannelWait
    \/ WifiConnectSta
    \/ ChannelDeliver

\* the channel change announced by the coordinator
SpecChannel == Init /\ [][NextChannel]_vars

NextLock ==
    \/ NextGame
    \/ \E fn \in LockedOps : GameLockTimeout(fn)
    \/ ReaderAutoStopLockTimeout

\* the game logic with calls that find the mutex taken
SpecLock == Init /\ [][NextLock]_vars

NextRace ==
    \/ \E d \in SweepSteps : Tick(d, MaxSweepSec)
    \/ \E mac \in Macs, id \in ModuleIds : CoordRecv(mac, id, "HEARTBEAT", 0)
    \/ SweepLoop
    \/ SweepCommit

\* the registry read by one task while the radio task updates it
SpecRace == Init /\ [][NextRace]_vars

\* a fleet of one node more than the registry can hold; the nodes come up
\* in the order of their module ids and then keep sending Heartbeats
MaxFleetSec == 16
FleetIds == 1..(MAX_LASER_UNITS + 1)
FleetMacs == <<"mac01", "mac02", "mac03", "mac04", "mac05", "mac06",
               "mac07", "mac08", "mac09", "mac10", "mac11">>

NextFleet ==
    \/ \E d \in SweepSteps : Tick(d, MaxFleetSec)
    \/ \E id \in FleetIds :
          /\ id <= Len(laser_units) + 1
          /\ CoordRecv(FleetMacs[id], id, "HEARTBEAT", 0)

SpecFleet == Init /\ [][NextFleet]_vars

\* the laser node's last PairingRequest went out on the coordinator's
\* channel
RequestHeard ==
    /\ ltx # <<>>
    /\ ltx[1].type = "PAIRING_REQUEST"
    /\ request_channel = cc.radio

\* the coordinator receives the PairingRequest (module_control.c:504-534)
CoordHear ==
    /\ RequestHeard
    /\ \E s \in GameSenders : CoordRecv(s[1], s[2], "PAIRING_REQUEST", 1)

\* the coordinator's unicast PairingResponse reaches the laser node, whose
\* radio is tuned to the coordinator's channel (module_laser.c:287-336)
LaserHear ==
    /\ RequestHeard
    /\ tx # <<>>
    /\ tx[1].type = "PAIRING_RESPONSE"
    /\ radio_channel = cc.radio
    /\ LaserRecv(CoordMac, "PAIRING_RESPONSE", 0)

\* a frame is on its way: the 1.5 s pairing timer does not fire before it
\* has been received
ScanPending ==
    /\ RequestHeard
    /\ ~is_paired
    /\ (tx = <<>> \/ radio_channel = cc.radio)

ScanTimer == ~ScanPending /\ LaserPairingTimer

InitScan ==
    \E coord_channel \in 1..MAX_WIFI_CHANNEL, laser_channel \in 1..MAX_WIFI_CHANNEL :
       /\ InitGame
       /\ InitLaserOn(laser_channel)
       /\ InitLinkOn(coord_channel, laser_channel)
       /\ boot = BootDone

NextScan ==
    \/ ScanTimer
    \/ CoordHear
    \/ LaserHear

\* an unpaired laser node scanning for a coordinator that stays on one
\* channel; timer and radio tasks are always scheduled
SpecScan ==
    /\ InitScan
    /\ [][NextScan]_vars
    /\ WF_vars(ScanTimer)
    /\ WF_vars(CoordHear)
    /\ WF_vars(LaserHear)

\* the frames that touch the pairing state of a laser node
PairingFrames == {<<"PAIRING_RESPONSE", 0>>, <<"RESET", 0>>,
                  <<"CHANNEL_CHANGE", 6>>, <<"CHANNEL_CHANGE", 14>>}

NextPairing ==
    \/ LaserPairingTimer
    \/ \E sender \in LaserSenders, f \in PairingFrames :
          LaserRecv(sender, f[1], f[2])

\* a laser node between scanning and paired: pairing timer, responses,
\* resets and channel changes in any order
SpecPairing == Init /\ [][NextPairing]_vars

(***************************************************************************)
(* The coordinator's start-up (module_control.c:547-730)                   *)
(***************************************************************************)
\* the game operations each callback calls first
BootCalls == {<<"radio", "game_beam_broken">>, <<"radio", "game_finish">>,
              <<"web", "game_start">>, <<"web", "game_stop">>,
              <<"button", "game_get_state">>}

\* module_control_init statement by statement: button_handler_init (585),
\* web_server_init (687), espnow_manager_init (691), game_logic_init (713)
BootStep ==
    /\ boot.pc # "done"
    /\ CASE boot.pc = "button_handler_init" ->
              /\ boot' = [boot EXCEPT !.callbacks = @ \cup {"button"},
                                      !.pc = "web_server_init"]
              /\ UNCHANGED <<current_state, current_player>>
         [] boot.pc = "web_server_init" ->
              /\ boot' = [boot EXCEPT !.callbacks = @ \cup {"web"},
                                      !.pc = "espnow_manager_init"]
              /\ UNCHANGED <<current_state, current_player>>
         [] boot.pc = "espnow_manager_init" ->
              /\ boot' = [boot EXCEPT !.callbacks = @ \cup {"radio"},
                                      !.pc = "game_logic_init"]
              /\ UNCHANGED <<current_state, current_player>>
         [] boot.pc = "game_logic_init" ->
              /\ boot' = [boot EXCEPT !.game_mutex = TRUE, !.pc = "done"]
              /\ current_state' = "IDLE"
              /\ current_player' = ZeroPlayer
    /\ UNCHANGED <<now, statistics, configuration, penalty_start_time,
                   total_penalty_time, laser_units, esp_peers, reader_pc,
                   completed, op, tx>>
    /\ UNCHANGED <<laserVars, rx_verdict, cc, sweep_pc, call, fin,
                   request_channel>>

\* a registered callback runs before game_logic_init and calls a game
\* operation: xSemaphoreTake on the NULL handle (an assertion failure or a
\* fault, the game state is not reached)
BootCall(context, fn) ==
    /\ ~boot.game_mutex
    /\ context \in boot.callbacks
    /\ boot' = [boot EXCEPT !.early_call = fn]
    /\ UNCHANGED <<gameVars, laserVars, rx_verdict, cc, sweep_pc, call, fin,
                   request_channel>>

NextBoot ==
    \/ BootStep
    \/ \E c \in BootCalls : BootCall(c[1], c[2])
    \/ boot.pc = "done" /\ \E d \in SweepSteps : Tick(d, MaxSweepSec)
    \/ boot.pc = "done" /\ \E mac \in Macs, id \in ModuleIds :
                             CoordRecv(mac, id, "HEARTBEAT", 0)

\* the coordinator from the entry of module_control_init on
SpecBoot == InitBoot /\ [][NextBoot]_vars

NextMutex ==
    \/ \E d \in ClockSteps : Advance(d)
    \/ \E s \in GameSenders : CoordRecv(s[1], s[2], "HEARTBEAT", 0)
    \/ \E config \in ConfigInputs : call.pc = "idle" /\ GameSetConfig(config)
    \/ call.pc = "idle" /\ reader_pc = "idle" /\ GameGetPlayerData
    \/ \E fn \in SendingOps : OpCall(fn)
    \/ OpStep

\* one task going through the game operations statement by statement
SpecMutex == Init /\ [][NextMutex]_vars

\* game_start, game_finish and game_stop statement by statement in one
\* task, and the radio task running game_finish for a FinishPressed frame
\* whenever the first task does not hold game_mutex
NextOrder ==
    \/ NextMutex
    \/ /\ ~call.mutex
       /\ \E s \in GameSenders : CoordRecv(s[1], s[2], "FINISH_PRESSED", 0)

SpecOrder == Init /\ [][NextOrder]_vars

NextFinish ==
    \/ \E sender \in LaserSenders, f \in FinishFrames :
          FinishRecv(sender, f[1], f[2])
    \/ FinishPairingTimer
    \/ FinishHeartbeatTimer
    \/ FinishButton

\* one finish-button node, fed by the frames of the coordinator and of
\* another node
SpecFinish == Init /\ [][NextFinish]_vars

NextLaser ==
    \/ \E d \in LaserSteps : LaserAdvance(d)
    \/ \E sender \in LaserSenders, f \in LaserFrames :
          LaserRecv(sender, f[1], f[2])
    \/ SafetyTimerTick

\* one laser node, fed by the frames of the coordinator and of another node
SpecLaser == Init /\ [][NextLaser]_vars

(***************************************************************************)
(* Properties                                                              *)
(***************************************************************************)
LaterOf(a, b) == IF a >= b THEN a ELSE b
NoGameStartIn(sent) == \A i \in DOMAIN sent : sent[i].type # "GAME_START"
\* the elapsed time a status read made in the current state reports
ElapsedNow == (now - current_player.start_time) + total_penalty_time
\* some record of the registry has role Laser and was seen within 15 s
OnlineLaserListed ==
    \E i \in DOMAIN laser_units :
        laser_units[i].role = 1 /\ now - laser_units[i].last_seen <= 15000
StartStep == \E mode \in StartModes : GameStart(mode)
BeamStep == \E s \in GameSenders, b \in GameRoleBytes :
                CoordRecv(s[1], s[2], "BEAM_BROKEN", b)
FinishStep == \/ GameFinish
              \/ \E s \in GameSenders, b \in GameRoleBytes :
                    CoordRecv(s[1], s[2], "FINISH_PRESSED", b)

\* C1: whenever the emitter is on and no Heartbeat of the coordinator has
\* arrived for longer than the safety timeout, measured from the later of
\* the last coordinator Heartbeat and the moment the emitter was switched
\* on, the next periodic safety check switches the emitter off, whichever
\* command lit it, whether or not a Heartbeat ever arrived, paired or not.
C1_SafetyCheckSwitchesOff ==
    [][(/\ SafetyTimerTick
        /\ laser_status = "LASER_ON"
        /\ lnow - LaterOf(hb_seen_at, on_since) > HEARTBEAT_TIMEOUT_US)
       => laser_status' = "LASER_OFF"]_vars

\* C2: total_games equals the number of games that have reached COMPLETE,
\* and no operation invoked while the state is COMPLETE changes the
\* statistics.
C2_GamesCountedOnce ==
    [][/\ statistics'.total_games = completed'
       /\ (current_state = "COMPLETE" => statistics' = statistics)]_vars

\* C3: game_start called in RUNNING, PENALTY, PAUSED or COUNTDOWN returns an
\* error, leaves state, player record, accumulated penalty and statistics
\* unchanged and sends no GameStart.
C3_StartRejectedWhileActive ==
    [][(StartStep /\ current_state \in {"RUNNING", "PENALTY", "PAUSED", "COUNTDOWN"})
       => /\ op'.ret # "ESP_OK"
          /\ UNCHANGED <<current_state, current_player, total_penalty_time,
                         statistics>>
          /\ NoGameStartIn(tx')]_vars

C5_BeamBrokenOnlyInRunning ==
    [][BeamStep =>
         IF current_state = "RUNNING"
         THEN /\ op'.ret = "ESP_OK"
              /\ current_player'.beam_breaks = current_player.beam_breaks + 1
              /\ configuration.mode # "TRAINING"
                 => /\ total_penalty_time' =
                         total_penalty_time + configuration.penalty_time * 1000
                    /\ current_state' = "PENALTY"
         ELSE /\ op'.ret # "ESP_OK"
              /\ UNCHANGED <<current_state, total_penalty_time>>
              /\ current_player'.beam_breaks = current_player.beam_breaks]_vars

\* a break has just been accepted in a non-training game
C5_Witness ==
    /\ current_state = "PENALTY"
    /\ op.ret = "ESP_OK"
    /\ penalty_start_time = now
    /\ current_player.beam_breaks = 2
    /\ total_penalty_time > 0

\* C6: while the state stays in RUNNING or PENALTY the elapsed time read
\* through game_get_player_data never decreases, every read returns
\* now - start_time + accumulated penalty, and an accepted non-training
\* break raises the value read at that instant by penalty_time * 1000 ms.
C6_ElapsedMonotonic ==
    [][/\ (current_state \in Active /\ current_state' \in Active)
          => ElapsedNow' >= ElapsedNow
       /\ (GameGetPlayerData /\ current_state' \in Active)
          => op'.out.elapsed_time = ElapsedNow'
       /\ (BeamStep /\ op'.ret = "ESP_OK" /\ configuration.mode # "TRAINING")
          => ElapsedNow' = ElapsedNow + configuration.penalty_time * 1000]_vars

\* C7: once 3000 ms have passed since the break that entered PENALTY, the
\* state read through game_get_state is RUNNING, with no other operation
\* invoked first.
C7_PenaltyEndsByItself ==
    [][(/\ GameGetState
        /\ current_state = "PENALTY"
        /\ penalty_start_time > 0
        /\ now - penalty_start_time >= PENALTY_DISPLAY_TIME_MS)
       => op'.ret = "RUNNING"]_vars

\* C8: a status read that finds max_time > 0 and the elapsed time at or
\* above max_time * 1000 ms ends the game, which is then COMPLETE with
\* completion ABORTED_TIME; with max_time = 0 no status read ends the game.
C8_TimeLimitEndsGame ==
    [][/\ ReaderAutoStop
          => /\ current_state' = "COMPLETE"
             /\ current_player'.completion = "ABORTED_TIME"
       /\ (/\ GameGetPlayerData
           /\ current_state \in Active
           /\ configuration.max_time > 0
           /\ ElapsedNow >= configuration.max_time * 1000)
          => reader_pc' = "stop"
       /\ (GameGetPlayerData /\ configuration.max_time = 0)
          => /\ reader_pc' = "idle"
             /\ current_state' = "COMPLETE" => current_state = "COMPLETE"]_vars

\* C9: game_pause succeeds exactly in RUNNING or PENALTY and enters PAUSED;
\* game_resume succeeds exactly in PAUSED and enters RUNNING; in every other
\* state each returns an error and changes nothing.
C9_PauseResume ==
    [][/\ GamePause =>
            IF current_state \in Active
            THEN op'.ret = "ESP_OK" /\ current_state' = "PAUSED"
            ELSE op'.ret # "ESP_OK" /\ UNCHANGED G
       /\ GameResume =>
            IF current_state = "PAUSED"
            THEN op'.ret = "ESP_OK" /\ current_state' = "RUNNING"
            ELSE op'.ret # "ESP_OK" /\ UNCHANGED G]_vars

\* C10: game_finish succeeds only in RUNNING or PENALTY and then enters
\* COMPLETE with completion SOLVED; in IDLE, PAUSED or COMPLETE it returns
\* an error and leaves state, player record and statistics unchanged.
C10_FinishOnlyWhileActive ==
    [][FinishStep =>
         IF current_state \in Active
         THEN /\ op'.ret = "ESP_OK"
              /\ current_state' = "COMPLETE"
              /\ current_player'.completion = "SOLVED"
         ELSE /\ op'.ret # "ESP_OK"
              /\ UNCHANGED <<current_state, current_player, statistics>>]_vars

\* a game has just been finished as solved
C10_Witness ==
    /\ current_state = "COMPLETE"
    /\ current_player.completion = "SOLVED"
    /\ current_player.end_time = now
    /\ op.ret = "ESP_OK"
    /\ statistics.total_games = 1

\* C11: game_stop in IDLE returns an error and leaves the state IDLE and
\* the statistics unchanged; game_stop on a RUNNING or PENALTY game whose
\* completion is NONE enters COMPLETE with completion ABORTED_MANUAL and
\* counts the game, so start() then stop() on a fresh system ends with
\* total_games = 1.
C11_StopIdleAndAbort ==
    [][GameStop =>
         /\ current_state = "IDLE"
            => /\ op'.ret # "ESP_OK"
               /\ current_state' = "IDLE"
               /\ statistics' = statistics
         /\ (current_state \in Active /\ current_player.completion = "NONE")
            => /\ op'.ret = "ESP_OK"
               /\ current_state' = "COMPLETE"
               /\ current_player'.completion = "ABORTED_MANUAL"
               /\ statistics'.total_games = statistics.total_games + 1]_vars

\* the first game of a fresh system has just been stopped by hand
C11_Witness ==
    /\ current_state = "COMPLETE"
    /\ current_player.completion = "ABORTED_MANUAL"
    /\ current_player.end_time = now
    /\ op.ret = "ESP_OK"
    /\ statistics.total_games = 1
    /\ completed = 1

\* C12: outside RUNNING and PENALTY the elapsed time is frozen: in PAUSED
\* or COMPLETE every read returns the elapsed time the game had at the
\* moment it left RUNNING/PENALTY, whatever is invoked in between short of
\* a successful start.
C12_ElapsedFrozen ==
    [][/\ (current_state \in Active /\ current_state' \in {"PAUSED", "COMPLETE"})
          => current_player'.elapsed_time = ElapsedNow
       /\ (current_state \in {"PAUSED", "COMPLETE"}
           /\ current_state' \in {"PAUSED", "COMPLETE"})
          => current_player'.elapsed_time = current_player.elapsed_time
       /\ (GameGetPlayerData /\ current_state' \in {"PAUSED", "COMPLETE"})
          => op'.out.elapsed_time = current_player'.elapsed_time]_vars

\* the frame fails one of the tests made before the receive callback:
\* its length is not the datagram size, or its checksum field is not the
\* CRC-16 of the bytes in front of it
FrameInvalid(f) ==
    \/ f.len # 40
    \/ f.checksum # esp_crc16_le(0, FrameBytes(f))

InvalidCoordFrames == {f \in CoordRawFrames : FrameInvalid(f)}
InvalidLaserFrames == {f \in LaserRawFrames : FrameInvalid(f)}

\* C13: a received frame of the wrong length or with a wrong checksum is
\* dropped before the receive callback: game state, registry, unicast peer
\* table and pairing state are left unchanged.
C13_BadFrameDropped ==
    [][/\ \A mac \in Macs, f \in InvalidCoordFrames :
            EspnowRecvCoord(mac, f)
            => /\ UNCHANGED <<gameVars, laserVars>>
               /\ rx_verdict'.coord = "dropped"
       /\ \A sender \in LaserSenders, f \in InvalidLaserFrames :
            EspnowRecvLaser(sender, f)
            => /\ UNCHANGED <<gameVars, laserVars>>
               /\ rx_verdict'.laser = "dropped"]_vars

\* a paired laser node and a coordinator with a registered unit have each
\* just dropped a frame
C13_Witness ==
    /\ rx_verdict = [coord |-> "dropped", laser |-> "dropped"]
    /\ is_paired
    /\ Len(laser_units) > 0
    /\ esp_peers # {}

\* the positions of the registry records of a module
RecordsOf(units, module_id) ==
    {i \in 1..Len(units) : units[i].module_id = module_id}

SansOnline(u) == [u EXCEPT !.is_online = TRUE]

C16_ChannelChangeAnnounced ==
    /\ Len(cc.sent) <= 3
    /\ \A k \in 1..Len(cc.sent) :
          cc.sent[k].type = "CHANNEL_CHANGE" /\ cc.sent[k].data0 = cc.new_channel
    /\ (cc.pc = "returned" /\ cc.new_channel \in 1..13)
       => /\ cc.ret = "ESP_OK"
          /\ Len(cc.sent) = 3
          /\ cc.waited_ms >= 2000
    /\ (cc.pc = "returned" /\ cc.new_channel \notin 1..13)
       => /\ cc.ret = "ESP_ERR_INVALID_ARG"
          /\ cc.sent = <<>>
    /\ (cc.radio = cc.new_channel /\ cc.new_channel \in 1..13)
       => Len(cc.sent) = 3
    /\ cc.pc \in {"loop", "wait"} => cc.radio # cc.new_channel

\* the call for channel 6 has returned success, and the laser node has
\* followed the broadcast
C16_Witness ==
    /\ cc.pc = "returned"
    /\ cc.new_channel = 6
    /\ cc.ret = "ESP_OK"
    /\ Len(cc.sent) = 3
    /\ radio_channel = 6

\* pause, resume or finish called in a state that does not allow it
WrongStateStep ==
    \/ GamePause /\ current_state # "RUNNING"
    \/ GameResume /\ current_state # "PAUSED"
    \/ FinishStep /\ current_state \notin Active

\* C17: pause, resume and finish in a wrong state leave the game state
\* untouched and return an invalid-state result that is not the result
\* (ESP_FAIL) returned when the mutex cannot be taken.
C17_InvalidStateDistinct ==
    [][WrongStateStep =>
         /\ UNCHANGED <<current_state, current_player, statistics,
                        configuration, penalty_start_time, total_penalty_time>>
         /\ op'.ret # "ESP_OK"
         /\ \A fn \in LockedOps :
               ENABLED GameLockTimeout(fn) => op'.ret # "ESP_FAIL"]_vars

\* C20: an operation that cannot take the mutex returns an error and
\* leaves state, player record, penalty, statistics and configuration
\* unchanged; a status read whose game_stop cannot take the mutex returns
\* an error too and leaves the running game without a completion.
C20_LockTimeoutLeavesState ==
    [][/\ (\E fn \in LockedOps : GameLockTimeout(fn))
          => /\ op'.ret # "ESP_OK"
             /\ UNCHANGED <<current_state, current_player, statistics,
                            configuration, penalty_start_time,
                            total_penalty_time>>
       /\ ReaderAutoStopLockTimeout
          => /\ op'.ret # "ESP_OK"
             /\ current_state' \in Active
                => current_player'.completion = "NONE"]_vars

\* C18: in training mode an accepted beam break adds one to the break
\* count, adds nothing to the accumulated penalty and leaves the state
\* RUNNING, so the elapsed time does not jump; no step taken in training
\* mode enters PENALTY.
C18_TrainingNoPenalty ==
    [][/\ (BeamStep /\ configuration.mode = "TRAINING" /\ op'.ret = "ESP_OK")
          => /\ current_state = "RUNNING"
             /\ current_state' = "RUNNING"
             /\ current_player'.beam_breaks = current_player.beam_breaks + 1
             /\ total_penalty_time' = total_penalty_time
             /\ penalty_start_time' = penalty_start_time
             /\ now' - current_player'.start_time + total_penalty_time'
                = now - current_player.start_time + total_penalty_time
       /\ (configuration.mode = "TRAINING" /\ current_state # "PENALTY")
          => current_state' # "PENALTY"]_vars

\* a running training game with two breaks counted and no penalty
C18_Witness ==
    /\ configuration.mode = "TRAINING"
    /\ current_state = "RUNNING"
    /\ current_player.beam_breaks = 2
    /\ total_penalty_time = 0
    /\ op.ret = "ESP_OK"
    /\ tx = <<>>

C21_ExpiryAtomic ==
    [][/\ (reader_pc = "stop" /\ reader_pc' = "stop")
          => UNCHANGED <<current_state, current_player, statistics,
                         penalty_start_time, total_penalty_time>>
       /\ ReaderAutoStop
          => /\ current_state' = "COMPLETE"
             /\ current_player'.completion = "ABORTED_TIME"
             /\ completed' = completed + 1
             /\ statistics'.total_games = statistics.total_games + 1]_vars

\* C22: registry accesses exclude each other, so that a registry read
\* loses no record heard within the removal window and no last_seen, and
\* no two records ever carry the same module id.
C22_RegistryUnderLock ==
    [][/\ SweepCommit
          => \A i \in 1..Len(laser_units) :
                now - laser_units[i].last_seen <= 60000
                => \E j \in 1..Len(laser_units') :
                      /\ laser_units'[j].module_id = laser_units[i].module_id
                      /\ laser_units'[j].last_seen >= laser_units[i].last_seen
       /\ \A i, j \in 1..Len(laser_units') :
             laser_units'[i].module_id = laser_units'[j].module_id => i = j]_vars

\* C23: no send is issued while the game mutex is held: the GameStart and
\* GameStop messages of start, stop, finish and time-limit expiry go out
\* after the mutex taken for the state change was given back.
C23_NoSendUnderLock ==
    [][tx' # <<>> => (~call.mutex /\ ~call'.mutex)]_vars

\* the units have just been told of the end of a game that a status read
\* found past its time limit
C23_Witness ==
    /\ tx # <<>>
    /\ tx[1].type = "GAME_STOP"
    /\ current_player.completion = "ABORTED_TIME"
    /\ current_state = "COMPLETE"
    /\ call.fn = "game_stop"
    /\ call.pc = "idle"
    /\ ~call.mutex

\* C24: a node that processes a PairingResponse while unpaired is paired
\* afterwards, has cached the sender as the coordinator and registered the
\* sender in its unicast peer table, and its heartbeat timer runs; a
\* paired node sends no PairingRequest.
C24_PairingResponsePairs ==
    [][/\ \A sender \in LaserSenders :
            (~fin.is_paired /\ FinishRecv(sender, "PAIRING_RESPONSE", 0))
            => /\ fin'.is_paired
               /\ fin'.main_unit_mac = sender
               /\ sender \in fin'.peers
               /\ fin'.heartbeat_timer_on
       /\ \A sender \in LaserSenders :
            (~is_paired /\ LaserRecv(sender, "PAIRING_RESPONSE", 0))
            => /\ is_paired'
               /\ main_unit_mac' = sender
               /\ sender \in lpeers'
               /\ heartbeat_timer_on'
               /\ ~pairing_timer_on'
       /\ (fin.is_paired /\ FinishPairingTimer) => fin'.tx = <<>>]_vars

\* C25: a paired node stays paired with the same cached coordinator
\* address in every step that is not the processing of a Reset; in
\* particular a PairingResponse processed while paired, from whatever
\* address, changes neither is_paired nor main_unit_mac.
C25_PairedIsStable ==
    [][/\ (is_paired /\ ~(\E s \in LaserSenders : LaserRecv(s, "RESET", 0)))
            => (is_paired' /\ main_unit_mac' = main_unit_mac)
       /\ (fin.is_paired /\ ~(\E s \in LaserSenders : FinishRecv(s, "RESET", 0)))
            => (fin'.is_paired /\ fin'.main_unit_mac = fin.main_unit_mac)]_vars

\* C26: after a node has processed a Reset it is unpaired, its cached
\* coordinator address is cleared, the coordinator's address is no longer
\* in its peer table, its heartbeat timer is stopped and its pairing timer
\* runs; a laser node has also switched its emitter off and left game mode.
C26_ResetUnpairs ==
    [][/\ (\E s \in LaserSenders : LaserRecv(s, "RESET", 0))
            => /\ ~is_paired'
               /\ main_unit_mac' = "none"
               /\ main_unit_mac \notin lpeers'
               /\ ~heartbeat_timer_on'
               /\ pairing_timer_on'
               /\ laser_duty' = 0
               /\ ~is_game_mode'
       /\ (\E s \in LaserSenders : FinishRecv(s, "RESET", 0))
            => /\ ~fin'.is_paired
               /\ fin'.main_unit_mac = "none"
               /\ fin.main_unit_mac \notin fin'.peers
               /\ ~fin'.heartbeat_timer_on]_vars

\* C27: while the registry holds fewer than MAX_LASER_UNITS records, a
\* Heartbeat from an address that no record carries adds one record and
\* leaves the address of every existing record as it was, whatever module
\* id the message carries.
C27_OneRecordPerAddress ==
    [][\A mac \in Macs, id \in ModuleIds :
         (/\ CoordRecv(mac, id, "HEARTBEAT", 0)
          /\ Len(laser_units) < MAX_LASER_UNITS
          /\ \A i \in 1..Len(laser_units) : laser_units[i].mac_addr # mac)
         => /\ Len(laser_units') = Len(laser_units) + 1
            /\ \A i \in 1..Len(laser_units) :
                  laser_units'[i].mac_addr = laser_units[i].mac_addr]_vars

\* C28: after the coordinator has processed a Heartbeat from an address,
\* the registry holds a record with that address and last_seen = now, and
\* the address is in the unicast peer table; if it was there before, the
\* peer table is unchanged.
C28_HeartbeatRegisters ==
    [][\A id \in FleetIds :
         CoordRecv(FleetMacs[id], id, "HEARTBEAT", 0)
         => /\ \E i \in 1..Len(laser_units') :
                  /\ laser_units'[i].mac_addr = FleetMacs[id]
                  /\ laser_units'[i].last_seen = now'
            /\ FleetMacs[id] \in esp_peers'
            /\ (FleetMacs[id] \in esp_peers => esp_peers' = esp_peers)]_vars

\* C29: an unpaired laser node that scans while the coordinator stays on
\* one channel eventually becomes paired, whatever channel it starts on.
C29_ScanFindsCoordinator == <>is_paired

\* C30: while a node is unpaired its pairing timer runs, every tick of it
\* broadcasts a PairingRequest and moves the node to the next scan channel;
\* in particular a ChannelChange received while unpaired does not end the
\* rotation.
C30_NoGiveUp ==
    [][/\ (~fin.is_paired /\ FinishPairingTimer)
            => /\ fin'.tx # <<>>
               /\ fin'.tx[1].type = "PAIRING_REQUEST"
               /\ fin'.scanning_channel_index # fin.scanning_channel_index
       /\ (~is_paired /\ LaserPairingTimer)
            => /\ ltx' # <<>>
               /\ ltx'[1].type = "PAIRING_REQUEST"
               /\ current_scan_channel' # current_scan_channel
               /\ radio_channel' = current_scan_channel'
       /\ ~is_paired' => pairing_timer_on']_vars

\* C31: on a laser node the scan channel is always in 1..13 and the attempt
\* counter never exceeds MAX_ATTEMPTS_PER_CHANNEL; a tick that uses up the
\* attempts of a channel moves to the next channel, from 13 to 1, with the
\* counter back at 0; after every change of the radio channel the counter
\* is 0.
C31_ScanChannelInRange ==
    /\ [](/\ current_scan_channel \in 1..MAX_WIFI_CHANNEL
          /\ scan_attempts_on_channel <= MAX_ATTEMPTS_PER_CHANNEL)
    /\ [][/\ (/\ LaserPairingTimer
              /\ ~is_paired
              /\ scan_attempts_on_channel + 1 >= MAX_ATTEMPTS_PER_CHANNEL)
             => /\ current_scan_channel' =
                      IF current_scan_channel = MAX_WIFI_CHANNEL
                      THEN 1 ELSE current_scan_channel + 1
                /\ scan_attempts_on_channel' = 0
          /\ radio_channel' # radio_channel
             => scan_attempts_on_channel' = 0]_vars

\* the pairing timer has wrapped from channel 13 to channel 1
C31_Witness ==
    /\ ~is_paired
    /\ request_channel = MAX_WIFI_CHANNEL
    /\ current_scan_channel = 1
    /\ radio_channel = 1
    /\ scan_attempts_on_channel = 0
    /\ ltx # <<>>
    /\ ltx[1].type = "PAIRING_REQUEST"

\* C40: while a laser node is unpaired, the channel it records as its scan
\* channel is the channel its radio is tuned to.
C40_ScanChannelIsRadioChannel ==
    ~is_paired => current_scan_channel = radio_channel

\* C33: on a laser node the emitter is on only while the node is paired.
C33_EmitterOnlyWhilePaired ==
    laser_status = "LASER_ON" => is_paired

\* C34: on a laser node a Heartbeat refreshes the safety timestamp only if
\* its sender is the cached coordinator address; a Heartbeat from any other
\* address leaves the timestamp, the emitter and its cut-off as they were.
C34_OnlyCoordinatorHeartbeat ==
    [][\A sender \in LaserSenders :
         LaserRecv(sender, "HEARTBEAT", 0)
         => IF sender = main_unit_mac
            THEN last_main_unit_heartbeat' = lnow
            ELSE UNCHANGED <<last_main_unit_heartbeat, laser_status,
                             laser_duty, cutoff_deadline>>]_vars

\* a Heartbeat from an address that is not the cached one has just been
\* processed by a paired node with a running safety timestamp
C34_Witness ==
    /\ is_paired
    /\ main_unit_mac # CoordMac
    /\ hb_seen_at = lnow
    /\ last_main_unit_heartbeat > 0
    /\ last_main_unit_heartbeat < lnow
    /\ laser_status = "LASER_ON"

\* C35: the address of every record of the coordinator's registry is in
\* the coordinator's unicast peer table.
C35_RecordsAreUnicastPeers ==
    \A i \in 1..Len(laser_units) : laser_units[i].mac_addr \in esp_peers

\* the frames a finish-button node sends (module_finish.c:87, 116, 153)
FinishNodeFrames == {<<"PAIRING_REQUEST", 2>>, <<"HEARTBEAT", 0>>,
                     <<"FINISH_PRESSED", 0>>}

\* C36: whichever message of a finish-button node the coordinator processes
\* first, while the registry has no record of that node, the record it
\* creates does not have the role Laser, and the node alone does not make
\* game_has_laser_units true.
C36_FinishNodeNeverLaser ==
    [][\A mac \in Macs, id \in ModuleIds, f \in FinishNodeFrames :
         (/\ CoordRecv(mac, id, f[1], f[2])
          /\ \A i \in 1..Len(laser_units) : laser_units[i].module_id # id)
         => /\ \A i \in 1..Len(laser_units') :
                  laser_units'[i].module_id = id => laser_units'[i].role # 1
            /\ (laser_units = <<>> => ~game_has_laser_units(laser_units', now'))]_vars

\* C37: game_beam_broken, game_finish, game_start and game_stop are not
\* called while game_mutex does not exist yet.
C37_NoCallBeforeLock ==
    boot.early_call \notin {"game_beam_broken", "game_finish", "game_start",
                            "game_stop"}

\* C38: whenever no operation is in progress, the player's completion is
\* NONE exactly when the game state is not COMPLETE.
C38_CompletionIffComplete ==
    reader_pc = "idle"
    => ((current_player.completion = "NONE") <=> (current_state # "COMPLETE"))

\* C39: every time a game is counted, best_time becomes the minimum and
\* worst_time the maximum of the final elapsed times counted so far,
\* avg_time = total_playtime / total_games, and
\* best_time <= avg_time <= worst_time; also for an elapsed time of 0 ms.
C39_StatisticsConsistent ==
    [][statistics'.total_games = statistics.total_games + 1
       => LET e == current_player'.elapsed_time
              s == statistics
              t == statistics'
          IN /\ t.best_time = IF s.total_games = 0 \/ e < s.best_time
                              THEN e ELSE s.best_time
             /\ t.worst_time = IF s.total_games = 0 \/ e > s.worst_time
                               THEN e ELSE s.worst_time
             /\ t.avg_time = t.total_playtime \div t.total_games
             /\ t.best_time <= t.avg_time
             /\ t.avg_time <= t.worst_time]_vars

\* C32: GameStart is never sent to the units after the GameStop that ended
\* the game it starts: when the GameStart datagrams go out, the game is not
\* COMPLETE.
C32_CommandsInOrder ==
    [][(tx' # <<>> /\ tx'[1].type = "GAME_START")
       => current_state' # "COMPLETE"]_vars

=============================================================================
